---- MODULE Spec2Model ----
(***************************************************************************)
(* A model of smuc_rs: the PSP directory walker (src/src/parsers.rs), the  *)
(* directory and leaf-header decoders (src/src/macros.rs,                  *)
(* src/src/structs.rs), the address resolution rule and the AGESA string   *)
(* extractor (src/src/utils.rs).                                           *)
(*                                                                         *)
(* The firmware image is a read-only byte buffer.  It is modelled by what  *)
(* the code reads from it: its length, the alignment of its first byte,    *)
(* the 4 signature bytes at an address, the declared entry count and the   *)
(* 16-byte entry chunks that follow a directory header, and the version    *)
(* and packed_size fields of the 256 bytes at an address.                  *)
(***************************************************************************)
EXTENDS Integers, Sequences, FiniteSets, TLC

VARIABLES
    image,      \* the buffer `data` given to parse_directories
    offset,     \* the base offset carried through the recursion
    arg,        \* the other arguments of the call under way
    pc,         \* where the call is: start, iter, done, panic
    stack,      \* the nested flat_map iterators, innermost last
    out,        \* the items the iterator has yielded so far
    result      \* what the call returned

vars == <<image, offset, arg, pc, stack, out, result>>

None == "None"

\* Option<Generation>
NoGeneration == <<>>
SomeGeneration(g) == <<g>>

(***************************************************************************)
(* Sizes and alignments of the #[repr(C)] records.                         *)
(***************************************************************************)
EntrySize == 16
DirHeaderSize == 16
ComboHeaderSize == 32
LeafHeaderSize == 256
SigLen == 4
Mask24 == 16777215

TwoTo24 == Mask24 + 1
TwoTo16 == 256 * 256

HeaderAlign == 4      \* DirectoryHeader, ComboDirectoryHeader, PspEntryHeader: u32 fields
EntryAlign == 8       \* PspDirectoryEntry, ComboDirectoryEntry: a u64 field

(***************************************************************************)
(* usize: a 64-bit word <<top, mid, low>> of 16, 24 and 24 bits.           *)
(***************************************************************************)
ToWord(n) == <<0, (n \div TwoTo24) % TwoTo24, n % TwoTo24>>

WordToInt(w) == w[2] * TwoTo24 + w[3]

IsSmallWord(w) == w[1] = 0 /\ w[2] < 64

\* a + b on usize: the wrapped sum and whether it overflowed 64 bits
WordAdd(a, b) ==
    LET low == a[3] + b[3]
        mid == a[2] + b[2] + (low \div TwoTo24)
        top == a[1] + b[1] + (mid \div TwoTo24)
    IN  [value |-> <<top % TwoTo16, mid % TwoTo24, low % TwoTo24>>,
         overflow |-> top >= TwoTo16]

\* a - b on usize: the wrapped difference and whether it underflowed
WordSub(a, b) ==
    LET low == a[3] - b[3]
        bl == IF low < 0 THEN 1 ELSE 0
        mid == a[2] - b[2] - bl
        bm == IF mid < 0 THEN 1 ELSE 0
        top == a[1] - b[1] - bm
    IN  [value |-> <<(top + TwoTo16) % TwoTo16, (mid + TwoTo24) % TwoTo24,
                     (low + TwoTo24) % TwoTo24>>,
         overflow |-> top < 0]

\* location & 0x00FFFFFF
WordMask24(w) == <<0, 0, w[3]>>

\* utils.rs resolve_location, on words: (location & 0x00FFFFFF) + offset
resolve_location(location, off) == WordAdd(WordMask24(location), off)

\* resolve_location on addresses small enough for the sum not to overflow
Resolve(location, off) == WordToInt(resolve_location(ToWord(location), ToWord(off)).value)

(***************************************************************************)
(* Reading the buffer.                                                     *)
(***************************************************************************)
\* data.get(address..): None when address > len
GetFrom(img, address) == address <= img.len

\* the bytes left from address on
Remaining(img, address) == img.len - address

\* bytemuck::try_from_bytes fails when the slice is not aligned for the type
Aligned(img, address, align) == (img.base + address) % align = 0

SigAt(img, address) == img.sig[address]

SIG_2PSP == <<50, 80, 83, 80>>
SIG_2BHD == <<50, 66, 72, 68>>
SIG_PSP == <<36, 80, 83, 80>>
SIG_PL2 == <<36, 80, 76, 50>>

(***************************************************************************)
(* structs.rs: Version, PspEntryHeader.                                    *)
(***************************************************************************)
Version(major, minor, micro, build) ==
    [build |-> build, micro |-> micro, minor |-> minor, major |-> major]

is_zero(v) == v.build = 0 /\ v.micro = 0 /\ v.minor = 0 /\ v.major = 0

CmpInt(a, b) == IF a < b THEN -1 ELSE IF a > b THEN 1 ELSE 0

\* Ordering::then: the first comparison unless it is Equal
Then(c1, c2) == IF c1 # 0 THEN c1 ELSE c2

\* the mutant: build is compared first
VersionCmpBuildFirst(a, b) ==
    Then(Then(Then(CmpInt(a.build, b.build), CmpInt(a.micro, b.micro)),
              CmpInt(a.minor, b.minor)), CmpInt(a.major, b.major))

\* Ord for Version
VersionCmp(a, b) ==
    Then(Then(Then(Then(0, CmpInt(a.major, b.major)), CmpInt(a.minor, b.minor)),
              CmpInt(a.micro, b.micro)), CmpInt(a.build, b.build))

\* PspEntryHeader::get_version
get_version(h) ==
    IF is_zero(h.version)
    THEN [build |-> h.rsvd_0[1], micro |-> h.rsvd_0[2],
          minor |-> h.rsvd_0[3], major |-> h.rsvd_0[4]]
    ELSE h.version

\* the 256 bytes at address seen as a PspEntryHeader
LeafAt(img, address) ==
    [rsvd_0 |-> SigAt(img, address),
     version |-> img.leaf[address].version,
     packed_size |-> img.leaf[address].packed_size]

\* the mutant: the slice is taken without a length check (data[..size])
PspEntryHeaderNewUnchecked(img, location) ==
    IF Remaining(img, location) < LeafHeaderSize
    THEN [tag |-> "panic", header |-> None, error |-> ""]
    ELSE [tag |-> "ok", header |-> LeafAt(img, location), error |-> ""]

\* PspEntryHeader::new(data) for data = the buffer from location on
PspEntryHeaderNew(img, location) ==
    IF Remaining(img, location) < LeafHeaderSize
    THEN [tag |-> "err", header |-> None, error |-> "Could not fetch PSP entry header"]
    ELSE IF ~Aligned(img, location, HeaderAlign)
    THEN [tag |-> "err", header |-> None, error |-> "Could not parse PSP entry header"]
    ELSE [tag |-> "ok", header |-> LeafAt(img, location), error |-> ""]

(***************************************************************************)
(* macros.rs make_dir!: ComboDirectory::new and PspDirectory::new.         *)
(***************************************************************************)
HeaderSizeOf(name) == IF name = "ComboDirectory" THEN ComboHeaderSize ELSE DirHeaderSize

\* header.entries, the declared entry count of the header at address
DeclaredAt(img, address) == img.dirs[address].declared

\* the 16-byte chunks after the header at address
ChunksAt(img, address) == img.dirs[address].chunks

\* $name::new(address, data)
DirNew(name, address, img) ==
    IF ~GetFrom(img, address)
    THEN [tag |-> "err", entries |-> <<>>, error |-> "Could not fetch " \o name]
    ELSE IF Remaining(img, address) < HeaderSizeOf(name)
    THEN [tag |-> "err", entries |-> <<>>, error |-> "Could not fetch " \o name]
    ELSE IF ~Aligned(img, address, HeaderAlign)
    THEN [tag |-> "err", entries |-> <<>>, error |-> "Could not parse " \o name]
    ELSE IF DeclaredAt(img, address) * EntrySize
                > Remaining(img, address) - HeaderSizeOf(name)
    THEN \* data[HEADER_SIZE..][..header.entries as usize * ENTRY_SIZE]
         [tag |-> "panic", entries |-> <<>>, error |-> ""]
    ELSE IF ~Aligned(img, address + HeaderSizeOf(name), EntryAlign)
    THEN \* every chunk fails try_from_bytes and is filtered out
         [tag |-> "ok", entries |-> <<>>, error |-> ""]
    ELSE [tag |-> "ok",
          entries |-> SubSeq(ChunksAt(img, address), 1, DeclaredAt(img, address)),
          error |-> ""]

(***************************************************************************)
(* parsers.rs: the walk.                                                   *)
(***************************************************************************)
Item(location, ok, hdr, err, generation) ==
    [location |-> location, ok |-> ok, header |-> hdr, error |-> err,
     generation |-> generation]

\* fn header
HeaderItem(location, hdr, generation) == <<Item(location, TRUE, hdr, "", generation)>>

\* an Err carries no header: the header field of a failed item is never read
NoHeader == [rsvd_0 |-> <<0, 0, 0, 0>>, version |-> Version(0, 0, 0, 0), packed_size |-> 0]

\* fn error
ErrorItem(location, err, generation) == <<Item(location, FALSE, NoHeader, err, generation)>>

Frame(kind, address, entries, generation) ==
    [kind |-> kind, address |-> address, entries |-> entries, i |-> 1,
     generation |-> generation]

\* what a call leaves behind: a panic, the items of a once() iterator, or a new
\* flat_map iterator over a directory's entries
Outcome(panic, items, frames) == [panic |-> panic, items |-> items, frames |-> frames]

\* ComboDirectoryEntry::try_get_gen
try_get_gen(e) == e.id

parse_combo_directory(img, address, off) ==
    LET d == DirNew("ComboDirectory", address, img) IN
    CASE d.tag = "panic" -> Outcome(TRUE, <<>>, <<>>)
      [] d.tag = "err" -> Outcome(FALSE, ErrorItem(address, d.error, NoGeneration), <<>>)
      [] OTHER -> Outcome(FALSE, <<>>, <<Frame("combo", address, d.entries, NoGeneration)>>)

parse_psp_directory(img, address, off, generation) ==
    LET d == DirNew("PspDirectory", address, img) IN
    CASE d.tag = "panic" -> Outcome(TRUE, <<>>, <<>>)
      [] d.tag = "err" -> Outcome(FALSE, ErrorItem(address, d.error, generation), <<>>)
      [] OTHER -> Outcome(FALSE, <<>>, <<Frame("psp", address, d.entries, generation)>>)

parse_directory(img, address, off, generation) ==
    LET a == Resolve(address, off) IN
    IF ~GetFrom(img, a) \/ Remaining(img, a) < SigLen
    THEN \* &data[address..][..4]
         Outcome(TRUE, <<>>, <<>>)
    ELSE IF SigAt(img, a) \in {SIG_2PSP, SIG_2BHD}
    THEN parse_combo_directory(img, a, off)
    ELSE IF SigAt(img, a) \in {SIG_PSP, SIG_PL2}
    THEN parse_psp_directory(img, a, off, generation)
    ELSE Outcome(FALSE, ErrorItem(a, "Unknown PSP entry signature", generation), <<>>)

\* the mutant: only kind 0x08 is a leaf
IsLeafKindOnly08(kind) == kind = 8

IsLeafKind(kind) == kind \in {8, 18}

IsDirKind(kind) == kind \in {64, 112}

parse_psp_entry(img, entry, off, generation) ==
    IF IsDirKind(entry.kind)
    THEN parse_directory(img, entry.location, off, generation)
    ELSE IF IsLeafKind(entry.kind)
    THEN LET location == Resolve(entry.location, off) IN
         IF ~GetFrom(img, location)
         THEN Outcome(FALSE,
                      ErrorItem(location, "Could not fetch PSP entry header", generation),
                      <<>>)
         ELSE LET h == PspEntryHeaderNew(img, location) IN
              CASE h.tag = "panic" -> Outcome(TRUE, <<>>, <<>>)
                [] h.tag = "err" ->
                     Outcome(FALSE, ErrorItem(location, h.error, generation), <<>>)
                [] OTHER ->
                     Outcome(FALSE, HeaderItem(location, h.header, generation), <<>>)
    ELSE Outcome(FALSE, <<>>, <<>>)

(***************************************************************************)
(* parsers.rs parse_directories: what is done to the collected Vec.        *)
(***************************************************************************)
\* the comparator of sort_by_key(|..| location)
CmpLocation(x, y) == CmpInt(x.location, y.location)

\* the comparator of the first sort_by
CmpPackedSize(x, y) ==
    CASE x.ok /\ y.ok -> CmpInt(x.header.packed_size, y.header.packed_size)
      [] x.ok /\ ~y.ok -> -1
      [] ~x.ok /\ y.ok -> 1
      [] OTHER -> 0

\* the comparator of the second sort_by
CmpVersion(x, y) ==
    CASE x.ok /\ y.ok -> VersionCmp(get_version(x.header), get_version(y.header))
      [] x.ok /\ ~y.ok -> -1
      [] ~x.ok /\ y.ok -> 1
      [] OTHER -> 0

Cmp(key, x, y) ==
    CASE key = "location" -> CmpLocation(x, y)
      [] key = "packed_size" -> CmpPackedSize(x, y)
      [] OTHER -> CmpVersion(x, y)

\* x put into the sorted s behind every element that is not greater than it
RECURSIVE InsertStable(_, _, _)
InsertStable(s, x, key) ==
    IF s = <<>> THEN <<x>>
    ELSE IF Cmp(key, x, s[1]) < 0 THEN <<x>> \o s
    ELSE <<s[1]>> \o InsertStable(Tail(s), x, key)

RECURSIVE SortFrom(_, _, _)
SortFrom(sorted, rest, key) ==
    IF rest = <<>> THEN sorted
    ELSE SortFrom(InsertStable(sorted, rest[1], key), Tail(rest), key)

\* slice::sort_by, a stable sort
SortBy(v, key) == SortFrom(<<>>, v, key)

RECURSIVE DedupFrom(_, _)
DedupFrom(kept, rest) ==
    IF rest = <<>> THEN kept
    ELSE IF kept # <<>> /\ kept[Len(kept)].location = rest[1].location
    THEN DedupFrom(kept, Tail(rest))
    ELSE DedupFrom(Append(kept, rest[1]), Tail(rest))

\* the mutant: nothing is removed
DedupKeepAll(v) == v

\* Vec::dedup_by_key(|..| location): of a run of equal locations the first stays
DedupByKey(v) == DedupFrom(<<>>, v)

\* the mutant: the sort by packed_size is left out
SortByPackedSizeSkipped(v) == v

SortByPackedSize(v) == SortBy(v, "packed_size")

SortByVersion(v) == SortBy(v, "version")

\* parse_directories after collect()
Reconcile(v) == SortByVersion(SortByPackedSize(DedupByKey(SortBy(v, "location"))))

(***************************************************************************)
(* The images the walk is run on.  Addresses are absolute buffer offsets;  *)
(* the raw locations stored in entries carry a high byte that              *)
(* resolve_location masks away.                                            *)
(***************************************************************************)
MaxEntries == 3        \* entries of the root simple directory
MaxComboEntries == 2   \* entries of the combo directory
MaxChildEntries == 1   \* entries of the simple directory below a combo directory
MaxDepth == 4          \* nested iterators the walk is followed into

BaseOffset == 16 * 256
BufLen == BaseOffset + 16 * 256
AddrC == BaseOffset + 256        \* a combo directory
AddrP == BaseOffset + 512        \* a simple directory
AddrX == BaseOffset + 1024       \* three firmware headers
AddrY == BaseOffset + 1536
AddrZ == BaseOffset + 2048
AddrQ == BufLen - 32             \* a simple directory: room for one entry, not for a firmware header
AddrE == BufLen - 2              \* fewer than 4 bytes left
AddrO == BufLen + 256            \* past the end
AddrT == BaseOffset + 3072 + 2   \* a combo directory signature at an address that is not 4-byte aligned

HighByte == 2 * TwoTo24

Raw(a) == HighByte + (a - BaseOffset)

PspEntry(kind, a) == [kind |-> kind, location |-> Raw(a)]

ComboEntry(id, a) == [id |-> id, location |-> Raw(a)]

\* the sequences of length k over S
SeqsOf(S, k) == [1..k -> S]

SigTable ==
    AddrC :> SIG_2PSP @@ AddrP :> SIG_PSP @@ AddrQ :> SIG_PL2 @@
    AddrX :> <<9, 9, 9, 9>> @@ AddrY :> <<0, 0, 0, 1>> @@ AddrZ :> <<7, 7, 7, 7>> @@
    AddrT :> SIG_2BHD

LeafTable ==
    AddrX :> [version |-> Version(2, 0, 0, 0), packed_size |-> 2] @@
    AddrY :> [version |-> Version(0, 0, 0, 0), packed_size |-> 1] @@
    AddrZ :> [version |-> Version(2, 0, 0, 0), packed_size |-> 1]

ComboChoices ==
    {ComboEntry(1, AddrP), ComboEntry(2, AddrQ), ComboEntry(2, AddrC), ComboEntry(1, AddrT)}

PspChoices ==
    {PspEntry(8, AddrX), PspEntry(18, AddrY), PspEntry(8, AddrZ), PspEntry(18, AddrO),
     PspEntry(64, AddrQ), PspEntry(112, AddrP), PspEntry(64, AddrX), PspEntry(112, AddrE),
     PspEntry(1, AddrX)}

TailChoices == {PspEntry(8, AddrY), PspEntry(18, AddrQ), PspEntry(64, AddrP)}

Dir(chunks) == [declared |-> Len(chunks), chunks |-> chunks]

\* the directory at AddrQ: its header may declare more entries than the buffer holds
TailDirs ==
    {[declared |-> n, chunks |-> <<PspEntry(8, AddrY)>>] : n \in {0, 2}}
        \cup {Dir(<<e>>) : e \in TailChoices}

Image(c, p, q) ==
    [len |-> BufLen, base |-> 0, sig |-> SigTable, leaf |-> LeafTable,
     dirs |-> (AddrC :> c @@ AddrP :> p @@ AddrQ :> q @@ AddrT :> Dir(<<>>))]

\* the image is one with an empty combo directory and a simple directory of up
\* to MaxEntries entries, or one with a combo directory of up to MaxComboEntries
\* entries and a simple directory of up to MaxChildEntries entries
IsWalkImage(img) ==
    \E q \in TailDirs :
        \/ \E k \in 0..MaxEntries : \E p \in SeqsOf(PspChoices, k) :
              img = Image(Dir(<<>>), Dir(p), q)
        \/ \E j \in 0..MaxComboEntries, k \in 0..MaxChildEntries :
              \E c \in SeqsOf(ComboChoices, j), p \in SeqsOf(PspChoices, k) :
                 img = Image(Dir(c), Dir(p), q)

\* the root pointers of the anchor
RootChoices(img) ==
    IF img.dirs[AddrC].declared > 0 THEN {Raw(AddrC)}
    ELSE IF img.dirs[AddrP].declared > 0 \/ img.dirs[AddrQ].declared # 0 THEN {Raw(AddrP)}
    ELSE {Raw(AddrC), Raw(AddrP), Raw(AddrQ), Raw(AddrX), Raw(AddrE), Raw(AddrO), Raw(AddrT)}

Init ==
    /\ IsWalkImage(image)
    /\ offset = BaseOffset
    /\ arg \in {[address |-> r] : r \in RootChoices(image)}
    /\ pc = "start"
    /\ stack = <<>>
    /\ out = <<>>
    /\ result = None

(***************************************************************************)
(* The walk, one pull of the iterator at a time.                           *)
(***************************************************************************)
Top == stack[Len(stack)]

Advanced == [stack EXCEPT ![Len(stack)].i = @ + 1]

\* the call returned o with the iterators `below` still open
Apply(o, below) ==
    IF o.panic
    THEN /\ pc' = "panic"
         /\ UNCHANGED <<stack, out>>
    ELSE /\ Len(below) + Len(o.frames) <= MaxDepth
         /\ pc' = "iter"
         /\ stack' = below \o o.frames
         /\ out' = out \o o.items

\* parse_directories: parse_directory(data, address, offset, None)
Start ==
    /\ pc = "start"
    /\ Apply(parse_directory(image, arg.address, offset, NoGeneration), <<>>)
    /\ UNCHANGED <<image, offset, arg, result>>

\* the closure of parse_combo_directory's flat_map, on the next entry
PullCombo ==
    /\ pc = "iter" /\ stack # <<>>
    /\ Top.kind = "combo" /\ Top.i <= Len(Top.entries)
    /\ LET e == Top.entries[Top.i] IN
       Apply(parse_directory(image, e.location, offset, SomeGeneration(try_get_gen(e))),
             Advanced)
    /\ UNCHANGED <<image, offset, arg, result>>

\* the closure of parse_psp_directory's flat_map, on the next entry
PullPsp ==
    /\ pc = "iter" /\ stack # <<>>
    /\ Top.kind = "psp" /\ Top.i <= Len(Top.entries)
    /\ Apply(parse_psp_entry(image, Top.entries[Top.i], offset, Top.generation), Advanced)
    /\ UNCHANGED <<image, offset, arg, result>>

\* the innermost iterator is exhausted
Pop ==
    /\ pc = "iter" /\ stack # <<>>
    /\ Top.i > Len(Top.entries)
    /\ stack' = SubSeq(stack, 1, Len(stack) - 1)
    /\ UNCHANGED <<image, offset, arg, pc, out, result>>

\* collect() has the last item: the sorts and the dedup, and the return
Finish ==
    /\ pc = "iter" /\ stack = <<>>
    /\ result' = Reconcile(out)
    /\ pc' = "done"
    /\ UNCHANGED <<image, offset, arg, stack, out>>

Next == Start \/ PullCombo \/ PullPsp \/ Pop \/ Finish

Spec == Init /\ [][Next]_vars

(***************************************************************************)
(* What the next pull will do, read off the state.                         *)
(***************************************************************************)
HasEntry == pc = "iter" /\ stack # <<>> /\ Top.i <= Len(Top.entries)

NextEntry == Top.entries[Top.i]

\* the next step calls parse_directory
CallsParseDirectory ==
    \/ pc = "start"
    \/ HasEntry /\ Top.kind = "combo"
    \/ HasEntry /\ Top.kind = "psp" /\ IsDirKind(NextEntry.kind)

\* the raw address and the generation of that call
CallAddress == IF pc = "start" THEN arg.address ELSE NextEntry.location

CallGeneration ==
    IF pc = "start" THEN NoGeneration
    ELSE IF Top.kind = "combo" THEN SomeGeneration(try_get_gen(NextEntry))
    ELSE Top.generation

\* fewer than n bytes can be read at address
Unreadable(img, address, n) == address > img.len \/ img.len - address < n

KnownSignatures == {SIG_2PSP, SIG_2BHD, SIG_PSP, SIG_PL2}

\* out' is out and one failure at location with generation
YieldsOneError(location, generation) ==
    /\ Len(out') = Len(out) + 1
    /\ SubSeq(out', 1, Len(out)) = out
    /\ ~out'[Len(out')].ok
    /\ out'[Len(out')].location = location
    /\ out'[Len(out')].generation = generation

\* the iterators that were open stay open, the current one behind the entry
SiblingsKept == IF pc = "start" THEN stack' = <<>> ELSE stack' = Advanced

(***************************************************************************)
(* C2: whenever parse_directory is called on an address whose 4 signature  *)
(* bytes are not a directory signature or cannot be read, the step yields  *)
(* exactly one failure item at the resolved address with the call's        *)
(* generation, and the walk goes on with the sibling entries: it does not  *)
(* panic.                                                                  *)
(***************************************************************************)
C2_BadSignatureIsOneError ==
    [][(/\ CallsParseDirectory
        /\ LET a == Resolve(CallAddress, offset) IN
           \/ Unreadable(image, a, SigLen)
           \/ SigAt(image, a) \notin KnownSignatures)
       => (/\ pc' = "iter"
           /\ YieldsOneError(Resolve(CallAddress, offset), CallGeneration)
           /\ SiblingsKept)]_vars

(***************************************************************************)
(* C3: the walker never recurses into a directory address that is already  *)
(* on the current path: the addresses of the open iterators are distinct.  *)
(***************************************************************************)
C3_NoAddressTwiceOnPath ==
    \A i, j \in 1..Len(stack) : i < j => stack[i].address # stack[j].address

(***************************************************************************)
(* C4: the returned list holds every location the walk yielded exactly     *)
(* once.                                                                   *)
(***************************************************************************)
Locations(v) == {v[i].location : i \in 1..Len(v)}

C4_LocationsUnique ==
    pc = "done" =>
        /\ \A i, j \in 1..Len(result) : i # j => result[i].location # result[j].location
        /\ Locations(result) = Locations(out)

\* two combo entries with different ids led to the same leaf location
C4_Witness ==
    /\ pc = "done"
    /\ \E i, j \in 1..Len(out) :
        /\ i < j /\ out[i].ok /\ out[j].ok
        /\ out[i].location = out[j].location
        /\ out[i].generation # out[j].generation
        /\ out[i].generation # NoGeneration /\ out[j].generation # NoGeneration

(***************************************************************************)
(* C7: a leaf-kind entry whose resolved location is past the buffer end or *)
(* has fewer than 256 bytes after it yields exactly one failure item at    *)
(* that location, and the rest of the directory is iterated as after any   *)
(* other leaf entry: the step leaves the open iterators as they were, the  *)
(* current one behind the entry, as it does for a well-formed leaf.        *)
(***************************************************************************)
AtLeafEntry == HasEntry /\ Top.kind = "psp" /\ IsLeafKind(NextEntry.kind)

C7_BadLeafIsOneError ==
    [][AtLeafEntry =>
        /\ pc' = "iter"
        /\ stack' = Advanced
        /\ Len(out') = Len(out) + 1
        /\ SubSeq(out', 1, Len(out)) = out
        /\ Unreadable(image, Resolve(NextEntry.location, offset), LeafHeaderSize)
             => YieldsOneError(Resolve(NextEntry.location, offset), Top.generation)]_vars

\* a leaf failed for lack of bytes, and a later entry of the walk gave a header
C7_Witness ==
    /\ pc = "done"
    /\ \E i, j \in 1..Len(out) :
        /\ i < j
        /\ ~out[i].ok /\ out[i].error = "Could not fetch PSP entry header"
        /\ Unreadable(image, out[i].location, LeafHeaderSize)
        /\ ~Unreadable(image, out[i].location, SigLen)
        /\ out[j].ok

(***************************************************************************)
(* The directory tree of an image, read off the image alone.               *)
(***************************************************************************)
IsComboAt(img, a) == ~Unreadable(img, a, SigLen) /\ SigAt(img, a) \in {SIG_2PSP, SIG_2BHD}

IsPspAt(img, a) == ~Unreadable(img, a, SigLen) /\ SigAt(img, a) \in {SIG_PSP, SIG_PL2}

EntriesOf(img, a) == SubSeq(img.dirs[a].chunks, 1, img.dirs[a].declared)

\* the addresses a directory's entries send the walk to
Children(img, off, a) ==
    IF IsComboAt(img, a)
    THEN {Resolve(EntriesOf(img, a)[i].location, off) : i \in 1..Len(EntriesOf(img, a))}
    ELSE IF IsPspAt(img, a)
    THEN {Resolve(EntriesOf(img, a)[i].location, off) :
            i \in {k \in 1..Len(EntriesOf(img, a)) : EntriesOf(img, a)[k].kind \in {64, 112}}}
    ELSE {}

RECURSIVE ReachFrom(_, _, _)
ReachFrom(img, off, S) ==
    LET T == S \cup UNION {Children(img, off, a) : a \in S} IN
    IF T = S THEN S ELSE ReachFrom(img, off, T)

ReachableDirs(img, off, root) == ReachFrom(img, off, {Resolve(root, off)})

\* no directory is below itself
Acyclic(img, off, root) ==
    \A a \in ReachableDirs(img, off, root) :
        a \notin ReachFrom(img, off, Children(img, off, a))

\* the resolved locations of the leaf-kind entries of a simple directory
LeafLocationsOf(img, off, a) ==
    IF IsPspAt(img, a)
    THEN {Resolve(EntriesOf(img, a)[i].location, off) :
            i \in {k \in 1..Len(EntriesOf(img, a)) : EntriesOf(img, a)[k].kind \in {8, 18}}}
    ELSE {}

LeafLocations(img, off, root) ==
    UNION {LeafLocationsOf(img, off, a) : a \in ReachableDirs(img, off, root)}

\* every reachable directory and every leaf of it lies whole and aligned in the buffer
WellFormed(img, off, root) ==
    /\ \A a \in ReachableDirs(img, off, root) :
        /\ IsComboAt(img, a) \/ IsPspAt(img, a)
        /\ a % EntryAlign = 0 /\ img.base % EntryAlign = 0
        /\ a + (IF IsComboAt(img, a) THEN ComboHeaderSize ELSE DirHeaderSize)
             + img.dirs[a].declared * EntrySize <= img.len
    /\ \A l \in LeafLocations(img, off, root) :
        l + LeafHeaderSize <= img.len /\ l % HeaderAlign = 0

(***************************************************************************)
(* C8: on a well-formed acyclic image the returned list has no failure,    *)
(* and its locations are exactly the resolved locations of the leaf-kind   *)
(* entries of the simple directories reachable from the root.              *)
(***************************************************************************)
C8_LeavesAreTheLeafEntries ==
    (pc = "done" /\ WellFormed(image, offset, arg.address)
        /\ Acyclic(image, offset, arg.address))
    => /\ \A i \in 1..Len(result) : result[i].ok
       /\ Locations(result) = LeafLocations(image, offset, arg.address)

\* a root simple directory with two leaves and a nested directory with one leaf
C8_Witness ==
    /\ pc = "done"
    /\ WellFormed(image, offset, arg.address) /\ Acyclic(image, offset, arg.address)
    /\ arg.address = Raw(AddrP)
    /\ Len(EntriesOf(image, AddrP)) = 3
    /\ Cardinality(LeafLocationsOf(image, offset, AddrP)) = 2
    /\ Children(image, offset, AddrP) = {AddrQ}
    /\ Cardinality(LeafLocationsOf(image, offset, AddrQ)) = 1
    /\ Len(result) = 3

\* the open combo iterators, innermost last
ComboFrames == {k \in 1..Len(stack) : stack[k].kind = "combo"}

\* the combo entry the walk is beneath: the entry the innermost combo iterator
\* is about to hand out if that iterator is the innermost one, the entry it
\* handed out last if simple directories are open inside it
EnclosingComboEntry ==
    LET k == CHOOSE m \in ComboFrames : \A n \in ComboFrames : n <= m IN
    IF k = Len(stack) THEN stack[k].entries[stack[k].i]
    ELSE stack[k].entries[stack[k].i - 1]

\* the tag the items of the next step are to carry
ExpectedGeneration ==
    IF pc = "start" \/ ComboFrames = {} THEN NoGeneration
    ELSE SomeGeneration(try_get_gen(EnclosingComboEntry))

(***************************************************************************)
(* C13: every item the walk yields beneath a combo entry carries the       *)
(* generation derived from that entry's id, through any number of nested   *)
(* directories, and every item yielded beneath no combo entry carries      *)
(* none; the failure item of a combo directory that cannot be decoded is   *)
(* such an item.                                                           *)
(***************************************************************************)
C13_ItemsCarryTheComboTag ==
    [][(pc \in {"start", "iter"} /\ (pc = "iter" => HasEntry))
       => \A n \in (Len(out) + 1)..Len(out') : out'[n].generation = ExpectedGeneration]_vars

(***************************************************************************)
(* C14: every location at which the walk yielded a header has a successful *)
(* entry in the returned list, also when the walk yielded a failure at the *)
(* same location, in whichever order.                                      *)
(***************************************************************************)
C14_NoLeafIsLost ==
    pc = "done" =>
        \A i \in 1..Len(out) :
            out[i].ok => \E j \in 1..Len(result) :
                            result[j].ok /\ result[j].location = out[i].location

(***************************************************************************)
(* The reconciliation on its own: parse_directories from the point where   *)
(* collect() has returned, for every short list of items a walk can        *)
(* yield.  The header of a location is the same each time it is yielded    *)
(* (the buffer does not change); a failure can come with any location.     *)
(***************************************************************************)
MaxItems == 3

RecLocations == {AddrX, AddrY, AddrZ}

\* the first four bytes are 4.0.0.18 when read as the legacy version
RecHeaders ==
    {[rsvd_0 |-> <<18, 0, 0, 4>>, version |-> v, packed_size |-> n] :
        v \in {Version(4, 0, 0, 18), Version(3, 0, 0, 99), Version(3, 1, 0, 0),
               Version(0, 0, 0, 0)},
        n \in {1, 2}}

RecItems ==
    {Item(l, TRUE, h, "", NoGeneration) : l \in RecLocations, h \in RecHeaders}
        \cup {Item(l, FALSE, NoHeader, "Unknown PSP entry signature", NoGeneration) :
                l \in RecLocations}

SameBytes(v) ==
    \A i, j \in 1..Len(v) :
        (v[i].ok /\ v[j].ok /\ v[i].location = v[j].location) => v[i].header = v[j].header

IsRecOut(v) == \E k \in 0..MaxItems : \E w \in SeqsOf(RecItems, k) : SameBytes(w) /\ v = w

InitRec ==
    /\ image = Image(Dir(<<>>), Dir(<<>>), Dir(<<>>))
    /\ offset = BaseOffset
    /\ arg = [address |-> Raw(AddrP)]
    /\ pc = "iter"
    /\ stack = <<>>
    /\ IsRecOut(out)
    /\ result = None

NextRec == Finish

SpecRec == InitRec /\ [][NextRec]_vars

\* (major, minor, micro, build) of a, b compared as 4-tuples
LexLess(a, b) ==
    \/ a.major < b.major
    \/ a.major = b.major /\ a.minor < b.minor
    \/ a.major = b.major /\ a.minor = b.minor /\ a.micro < b.micro
    \/ a.major = b.major /\ a.minor = b.minor /\ a.micro = b.micro /\ a.build < b.build

(***************************************************************************)
(* C5: in the returned list no failed entry precedes a successful one, and *)
(* the effective versions of the successful entries never decrease, as     *)
(* 4-tuples (major, minor, micro, build).                                  *)
(***************************************************************************)
C5_SuccessesFirstByVersion ==
    pc = "done" =>
        \A i, j \in 1..Len(result) :
            i < j =>
                /\ result[j].ok => result[i].ok
                /\ (result[i].ok /\ result[j].ok) =>
                     ~LexLess(get_version(result[j].header), get_version(result[i].header))

\* 2.x discovered before 1.x before a failure, or any such order, with three entries
C5_Witness ==
    /\ pc = "done"
    /\ Len(out) = 3 /\ Len(result) = 3
    /\ ~out[1].ok /\ out[2].ok /\ out[3].ok
    /\ LexLess(get_version(out[3].header), get_version(out[2].header))
    /\ result[1] = out[3] /\ result[2] = out[2] /\ result[3] = out[1]

(***************************************************************************)
(* C6 as claimed: successful entries of equal version are in ascending     *)
(* order of location, whatever their packed_size, and failed entries are   *)
(* in ascending order of location.                                         *)
(***************************************************************************)
C6_TiesByLocation ==
    pc = "done" =>
        \A i, j \in 1..Len(result) :
            i < j =>
                /\ (/\ result[i].ok /\ result[j].ok
                    /\ get_version(result[i].header) = get_version(result[j].header))
                   => result[i].location < result[j].location
                /\ (~result[i].ok /\ ~result[j].ok)
                   => result[i].location < result[j].location

(***************************************************************************)
(* C6 as amended: successful entries of equal version are in               *)
(* non-decreasing order of packed_size, and in ascending order of location *)
(* when the packed_size is equal too; failed entries are in ascending      *)
(* order of location.                                                      *)
(***************************************************************************)
C6_TiesBySizeThenLocation ==
    pc = "done" =>
        \A i, j \in 1..Len(result) :
            i < j =>
                /\ (/\ result[i].ok /\ result[j].ok
                    /\ get_version(result[i].header) = get_version(result[j].header))
                   => /\ result[i].header.packed_size <= result[j].header.packed_size
                      /\ result[i].header.packed_size = result[j].header.packed_size
                           => result[i].location < result[j].location
                /\ (~result[i].ok /\ ~result[j].ok)
                   => result[i].location < result[j].location

\* equal versions, the higher location with the smaller packed_size comes first;
\* two failures are returned too
C6_Witness ==
    /\ pc = "done"
    /\ \E i, j \in 1..Len(result) :
        /\ i < j /\ result[i].ok /\ result[j].ok
        /\ get_version(result[i].header) = get_version(result[j].header)
        /\ result[i].header.packed_size < result[j].header.packed_size
        /\ result[i].location > result[j].location

(***************************************************************************)
(* The directory decoders on their own: ComboDirectory::new and            *)
(* PspDirectory::new at an address of a buffer of some length, whose       *)
(* header declares some number of entries.                                 *)
(***************************************************************************)
MaxDeclared == 3

DirLengths == {0, 8, 16, 32, 40, 48, 64, 80}

DirAddresses == {0, 4, 16, 32, 96}

BufferAlignments == {0, 1, 4}

\* the k-th 16-byte chunk after a header, as an entry of either kind
Chunk(k) == [kind |-> 8, id |-> k, location |-> Raw(AddrX) + k * LeafHeaderSize]

\* how many whole chunks the buffer holds after the header at address
ChunksThatFit(name, address, len) ==
    IF len - address - HeaderSizeOf(name) < 0 THEN 0
    ELSE (len - address - HeaderSizeOf(name)) \div EntrySize

DirImage(name, address, len, base, declared) ==
    [len |-> len, base |-> base,
     sig |-> (address :> (IF name = "ComboDirectory" THEN SIG_2PSP ELSE SIG_PSP)),
     leaf |-> <<>>,
     dirs |-> (address :>
                [declared |-> declared,
                 chunks |-> [k \in 1..ChunksThatFit(name, address, len) |-> Chunk(k)]])]

InitDir ==
    /\ arg \in {[name |-> n, address |-> a] :
                  n \in {"ComboDirectory", "PspDirectory"}, a \in DirAddresses}
    /\ image \in {DirImage(arg.name, arg.address, l, b, d) :
                    l \in DirLengths, b \in BufferAlignments, d \in 0..MaxDeclared}
    /\ offset = 0
    /\ pc = "start"
    /\ stack = <<>>
    /\ out = <<>>
    /\ result = None

\* the call returned, or panicked: result is what DirNew gave
Returned(r) ==
    /\ result' = r
    /\ pc' = IF r.tag = "panic" THEN "panic" ELSE "done"
    /\ UNCHANGED <<image, offset, arg, stack, out>>

ComboDirectoryNew ==
    /\ pc = "start" /\ arg.name = "ComboDirectory"
    /\ Returned(DirNew("ComboDirectory", arg.address, image))

PspDirectoryNew ==
    /\ pc = "start" /\ arg.name = "PspDirectory"
    /\ Returned(DirNew("PspDirectory", arg.address, image))

NextDir == ComboDirectoryNew \/ PspDirectoryNew

SpecDir == InitDir /\ [][NextDir]_vars

\* the header at the address can be read, and declares more entries than follow it
Overdeclared ==
    /\ arg.address + HeaderSizeOf(arg.name) <= image.len
    /\ (image.base + arg.address) % HeaderAlign = 0
    /\ image.dirs[arg.address].declared * EntrySize
         > image.len - arg.address - HeaderSizeOf(arg.name)

(***************************************************************************)
(* C1: when the declared entry count times the 16-byte entry size exceeds  *)
(* the bytes that follow the header, ComboDirectory::new and               *)
(* PspDirectory::new return a failure and do not panic.                    *)
(***************************************************************************)
C1_OverdeclaredIsFailure ==
    (pc # "start" /\ Overdeclared) => (pc = "done" /\ result.tag = "err")

(***************************************************************************)
(* resolve_location on its own, on 64-bit words, with the base offset      *)
(* either given or derived from an anchor address as main does             *)
(* (addr - 0x20000).  A build with overflow checks panics where a build    *)
(* without them wraps.                                                     *)
(***************************************************************************)
AnchorBias == 131072

MaxWord == <<TwoTo16 - 1, Mask24, Mask24>>

RawLocations ==
    {ToWord(0), ToWord(1), ToWord(Raw(AddrP)), ToWord(2 * TwoTo24 + 11259375),
     <<0, 255, Mask24>>, MaxWord}

AnchorAddresses ==
    {ToWord(EntrySize), ToWord(AnchorBias \div 2), ToWord(AnchorBias - 1), ToWord(AnchorBias),
     ToWord(AnchorBias + BaseOffset), ToWord(Mask24)}

BaseOffsets == {ToWord(0), ToWord(BaseOffset), <<0, 1, 0>>, <<TwoTo16 - 1, Mask24, 0>>, MaxWord}

InitResolve ==
    /\ image = Image(Dir(<<>>), Dir(<<>>), Dir(<<>>))
    /\ \/ /\ pc = "anchor"
          /\ arg \in {[location |-> l, anchor |-> a, overflow_checks |-> c] :
                        l \in RawLocations, a \in AnchorAddresses, c \in BOOLEAN}
          /\ offset = ToWord(0)
       \/ /\ pc = "resolve"
          /\ arg \in {[location |-> l, anchor |-> ToWord(AnchorBias), overflow_checks |-> c] :
                        l \in RawLocations, c \in BOOLEAN}
          /\ offset \in BaseOffsets
    /\ stack = <<>>
    /\ out = <<>>
    /\ result = None

\* main: parse_directory(&data, fet.psp as usize, addr - 0x20000, ..)
DeriveOffset ==
    /\ pc = "anchor"
    /\ LET d == WordSub(arg.anchor, ToWord(AnchorBias)) IN
       IF d.overflow /\ arg.overflow_checks
       THEN pc' = "panic" /\ UNCHANGED offset
       ELSE pc' = "resolve" /\ offset' = d.value
    /\ UNCHANGED <<image, arg, stack, out, result>>

\* parse_directory: let address = resolve_location(address, offset)
ResolveLocation ==
    /\ pc = "resolve"
    /\ LET r == resolve_location(arg.location, offset) IN
       /\ result' = r
       /\ pc' = IF r.overflow /\ arg.overflow_checks THEN "panic" ELSE "done"
    /\ UNCHANGED <<image, offset, arg, stack, out>>

NextResolve == DeriveOffset \/ ResolveLocation

SpecResolve == InitResolve /\ [][NextResolve]_vars

(***************************************************************************)
(* C9: resolve_location has no failure mode: neither the derivation of the *)
(* base offset from an anchor nor the addition panics, and the addition    *)
(* does not overflow, so that the result is (raw & 0x00FFFFFF) + base.     *)
(***************************************************************************)
C9_ResolveIsTotal ==
    /\ pc # "panic"
    /\ pc = "done" => ~result.overflow

(***************************************************************************)
(* utils.rs find_pattern with AGESA_PATTERN, on byte sequences:            *)
(*   AGESA![0-9a-zA-Z]{0,10}\x00{0,1}[0-9a-zA-Z .\-]+                      *)
(* The matches are the leftmost, greedy, non-overlapping ones.             *)
(***************************************************************************)
MARKER == <<65, 71, 69, 83, 65, 33>>

IsAlnum(b) == b \in 48..57 \/ b \in 65..90 \/ b \in 97..122

IsIdent(b) == IsAlnum(b) \/ b \in {32, 46, 45}

MaxAlnum == 10

HasMarkerAt(data, p) ==
    /\ p + Len(MARKER) - 1 <= Len(data)
    /\ \A i \in 1..Len(MARKER) : data[p + i - 1] = MARKER[i]

\* how many bytes from p on, at most cap, are alphanumeric
RECURSIVE AlnumRun(_, _, _)
AlnumRun(data, p, cap) ==
    IF cap = 0 \/ p > Len(data) \/ ~IsAlnum(data[p]) THEN 0
    ELSE 1 + AlnumRun(data, p + 1, cap - 1)

\* how many bytes from p on are identifier bytes
RECURSIVE IdentRun(_, _)
IdentRun(data, p) ==
    IF p > Len(data) \/ ~IsIdent(data[p]) THEN 0 ELSE 1 + IdentRun(data, p + 1)

\* the end (exclusive) of the match that takes k alphanumerics after the marker
\* at p, or 0: the NUL is taken when that leads to a match
EndWith(data, p, k) ==
    LET q == p + Len(MARKER) + k
        behind == IdentRun(data, q + 1)
        here == IdentRun(data, q)
    IN  IF q <= Len(data) /\ data[q] = 0 /\ behind > 0 THEN q + 1 + behind
        ELSE IF here > 0 THEN q + here
        ELSE 0

\* the greedy choice: the largest k that leads to a match
RECURSIVE EndFrom(_, _, _)
EndFrom(data, p, k) ==
    LET e == EndWith(data, p, k) IN
    IF e > 0 THEN e
    ELSE IF k = 0 THEN 0
    ELSE EndFrom(data, p, k - 1)

\* the end (exclusive) of the match starting at p, or 0
MatchEnd(data, p) ==
    IF ~HasMarkerAt(data, p) THEN 0
    ELSE EndFrom(data, p, AlnumRun(data, p + Len(MARKER), MaxAlnum))

RECURSIVE MatchesFrom(_, _)
MatchesFrom(data, p) ==
    IF p > Len(data) THEN <<>>
    ELSE LET e == MatchEnd(data, p) IN
         IF e > 0
         THEN <<[start |-> p - 1, bytes |-> SubSeq(data, p, e - 1)]>> \o MatchesFrom(data, e)
         ELSE MatchesFrom(data, p + 1)

\* find_pattern(data, AGESA_PATTERN)
FindAgesa(data) == MatchesFrom(data, 1)

\* x.iter().map(|&x| if x == 0 { ' ' } else { x as char }).collect::<String>()
Render(bytes) == [i \in 1..Len(bytes) |-> IF bytes[i] = 0 THEN 32 ELSE bytes[i]]

\* the mutant: the last match of the volume is taken
LastOf(matches) == IF matches = <<>> THEN <<>> ELSE <<matches[Len(matches)]>>

\* .first()
FirstOf(matches) == IF matches = <<>> THEN <<>> ELSE <<matches[1]>>

(***************************************************************************)
(* structs.rs EfiGuidDefinedSection.                                       *)
(***************************************************************************)
SectionHeaderSize == 24

\* get_body_size: get_full_size() - size_of::<Self>(), a usize subtraction
get_body_size(section) == WordSub(ToWord(section.full_size), ToWord(SectionHeaderSize))

(***************************************************************************)
(* The buffers try_find_agesa is run on: text bytes, then the sections     *)
(* that AGESA_SECTION_PATTERN matches, in address order.  A section is     *)
(* its 3-byte size field, the bytes the buffer holds after its 24-byte     *)
(* header, and what lzma_decompress makes of its body.  The bytes of a     *)
(* section do not match AGESA_PATTERN.                                     *)
(***************************************************************************)
MaxTokens == 3
MaxSections == 2

VER == <<86, 57>>

Tokens == {MARKER \o VER, MARKER, <<0>>, <<49, 46, 48>>, <<255>>}

RECURSIVE Flatten(_)
Flatten(ts) == IF ts = <<>> THEN <<>> ELSE ts[1] \o Flatten(Tail(ts))


Section(full_size, avail, lzma_ok, dec) ==
    [full_size |-> full_size, avail |-> avail, lzma_ok |-> lzma_ok, dec |-> dec]

SectionChoices ==
    {Section(SectionHeaderSize + 64, 32, TRUE, MARKER \o VER),      \* body past the end
     Section(8, 32, TRUE, MARKER \o VER),                           \* size below the header size
     Section(SectionHeaderSize + 16, 32, FALSE, <<>>),              \* not LZMA
     Section(SectionHeaderSize + 16, 32, TRUE, <<255, 65, 71>>),    \* no string in the volume
     Section(SectionHeaderSize + 16, 32, TRUE, MARKER \o VER \o <<0, 49, 255>>),
     Section(SectionHeaderSize + 32, 32, TRUE,
             MARKER \o <<255>> \o MARKER \o <<88, 255>> \o MARKER \o VER)}

IsAgesaBuffer(data) ==
    \E k \in 0..MaxTokens, n \in 0..MaxSections :
        \E ts \in SeqsOf(Tokens, k), ss \in SeqsOf(SectionChoices, n) :
            data = [text |-> Flatten(ts), sections |-> ss]

\* find_pattern(data, AGESA_SECTION_PATTERN): the sections, numbered in address order
FindSections(data) == [k \in 1..Len(data.sections) |-> k]

InitAgesa ==
    /\ IsAgesaBuffer(image)
    /\ arg \in {[overflow_checks |-> c] : c \in BOOLEAN}
    /\ offset = 0
    /\ pc = "start"
    /\ stack = <<>>
    /\ out = <<>>
    /\ result = None

Ok(v) == [ok |-> TRUE, value |-> v, error |-> ""]

Err(e) == [ok |-> FALSE, value |-> <<>>, error |-> e]

RenderAll(matches) == [i \in 1..Len(matches) |-> Render(matches[i].bytes)]

\* try_find_agesa up to the loop: the plaintext scan, then the section scan
AgesaScan ==
    /\ pc = "start"
    /\ LET agesa == RenderAll(FindAgesa(image.text)) IN
       IF agesa # <<>>
       THEN /\ result' = Ok(agesa)
            /\ pc' = "done"
            /\ UNCHANGED stack
       ELSE IF FindSections(image) = <<>>
       THEN /\ result' = Err("Could not find section pattern")
            /\ pc' = "done"
            /\ UNCHANGED stack
       ELSE /\ stack' = FindSections(image)
            /\ pc' = "sections"
            /\ UNCHANGED result
    /\ UNCHANGED <<image, offset, arg, out>>

Pushed(k, string) == [section |-> k, pushed |-> TRUE, text |-> string, message |-> ""]

Logged(k, message) == [section |-> k, pushed |-> FALSE, text |-> <<>>, message |-> message]

\* what one pass of the loop body does with section k: a panic, or the event
\* appended to out (a string pushed to agesa, or an error logged).
\* EfiGuidDefinedSection::new is given the 24 captured bytes and cannot fail.
SectionEvent(k) ==
    LET section == image.sections[k]
        size == get_body_size(section)
        first == FirstOf(FindAgesa(section.dec))
    IN  IF size.overflow /\ arg.overflow_checks
        THEN [panic |-> TRUE, event |-> Logged(k, "")]
        ELSE IF ~IsSmallWord(size.value) \/ WordToInt(size.value) > section.avail
        THEN [panic |-> FALSE, event |-> Logged(k, "Could not fetch compressed body")]
        ELSE IF ~section.lzma_ok
        THEN [panic |-> FALSE, event |-> Logged(k, "Could not decompress section")]
        ELSE IF first = <<>>
        THEN [panic |-> FALSE, event |-> Logged(k, "Could not find agesa in volumes")]
        ELSE [panic |-> FALSE, event |-> Pushed(k, Render(first[1].bytes))]

\* the loop body, for the next section
AgesaSection ==
    /\ pc = "sections" /\ stack # <<>>
    /\ LET e == SectionEvent(Head(stack)) IN
       IF e.panic
       THEN pc' = "panic" /\ UNCHANGED <<stack, out>>
       ELSE /\ out' = Append(out, e.event)
            /\ stack' = Tail(stack)
            /\ UNCHANGED pc
    /\ UNCHANGED <<image, offset, arg, result>>

\* the strings pushed to the Vec agesa, in order
RECURSIVE AgesaVec(_)
AgesaVec(events) ==
    IF events = <<>> THEN <<>>
    ELSE IF events[1].pushed THEN <<events[1].text>> \o AgesaVec(Tail(events))
    ELSE AgesaVec(Tail(events))

\* Ok(agesa)
AgesaReturn ==
    /\ pc = "sections" /\ stack = <<>>
    /\ result' = Ok(AgesaVec(out))
    /\ pc' = "done"
    /\ UNCHANGED <<image, offset, arg, stack, out>>

NextAgesa == AgesaScan \/ AgesaSection \/ AgesaReturn

SpecAgesa == InitAgesa /\ [][NextAgesa]_vars

\* v holds one string for each section of some of the sections, in their order:
\* the first match of the pattern in that section's decompressed body
IsOnePerSectionInOrder(v, sections) ==
    \E pick \in SUBSET (1..Len(sections)) :
        /\ Cardinality(pick) = Len(v)
        /\ \A k \in pick :
             LET found == FindAgesa(sections[k].dec)
                 s == v[Cardinality({j \in pick : j <= k})]
             IN  /\ found # <<>>
                 /\ Len(s) = Len(found[1].bytes)
                 /\ \A n \in 1..Len(s) :
                      s[n] = (IF found[1].bytes[n] = 0 THEN 32 ELSE found[1].bytes[n])

(***************************************************************************)
(* C10: when try_find_agesa returns a list: if AGESA_PATTERN matches in    *)
(* the buffer, the list is the matches in buffer order with NUL as space   *)
(* and no section was examined; otherwise the list has at most one string  *)
(* per matched section, in section order, each the first match of the      *)
(* pattern in that section's decompressed body.                            *)
(***************************************************************************)
C10_PlaintextElseOnePerVolume ==
    (pc = "done" /\ result.ok) =>
        LET plain == FindAgesa(image.text) IN
        IF plain # <<>>
        THEN /\ Len(result.value) = Len(plain)
             /\ \A i \in 1..Len(plain) :
                  /\ Len(result.value[i]) = Len(plain[i].bytes)
                  /\ \A n \in 1..Len(plain[i].bytes) :
                       result.value[i][n] = (IF plain[i].bytes[n] = 0 THEN 32
                                             ELSE plain[i].bytes[n])
             /\ out = <<>> /\ stack = <<>>
        ELSE IsOnePerSectionInOrder(result.value, image.sections)

\* no plaintext; two sections gave a string each, the second one its first of two
C10_Witness ==
    /\ pc = "done" /\ result.ok
    /\ FindAgesa(image.text) = <<>>
    /\ Len(image.sections) = 2 /\ Len(result.value) = 2
    /\ Len(FindAgesa(image.sections[2].dec)) = 2
    /\ result.value[1] # result.value[2]

\* plaintext with a NUL in it, and a section that holds a string too
C10_WitnessPlain ==
    /\ pc = "done" /\ result.ok
    /\ \E i \in 1..Len(FindAgesa(image.text)) :
         \E n \in 1..Len(FindAgesa(image.text)[i].bytes) :
            FindAgesa(image.text)[i].bytes[n] = 0
    /\ \E k \in 1..Len(image.sections) :
         image.sections[k].lzma_ok /\ FindAgesa(image.sections[k].dec) # <<>>

\* the section's body range is out of bounds, or its body is not LZMA, or its
\* decompressed body holds no match of AGESA_PATTERN
BadSection(section) ==
    \/ section.full_size < SectionHeaderSize
    \/ section.full_size - SectionHeaderSize > section.avail
    \/ ~section.lzma_ok
    \/ FindAgesa(section.dec) = <<>>

(***************************************************************************)
(* C11: in the loop over the matched sections, a section whose body range  *)
(* is out of bounds (its declared size may be below the 24-byte header     *)
(* size), whose body does not decompress or whose decompressed body has no *)
(* match is skipped: the loop goes on to the next section with the strings *)
(* collected so far, and does not panic.                                   *)
(***************************************************************************)
C11_BadSectionIsSkipped ==
    [][(pc = "sections" /\ stack # <<>> /\ BadSection(image.sections[Head(stack)]))
       => (/\ pc' = "sections"
           /\ stack' = Tail(stack)
           /\ AgesaVec(out') = AgesaVec(out))]_vars

\* the buffer holds no plaintext match and none of its sections gives a string
NoIdentifier(data) ==
    /\ FindAgesa(data.text) = <<>>
    /\ \A k \in 1..Len(data.sections) : BadSection(data.sections[k])

(***************************************************************************)
(* C12: when the buffer holds neither a plaintext match nor a section that *)
(* gives a string, try_find_agesa returns an empty list and not a failure, *)
(* whether the buffer has no section at all or only sections that fail.    *)
(***************************************************************************)
C12_NoIdentifierIsEmptyResult ==
    (pc = "done" /\ NoIdentifier(image)) => (result.ok /\ result.value = <<>>)

====
